---- MODULE Spec2Model ----
(***************************************************************************)
(* Model of task_manager.py: the persistence adapter (load_tasks and       *)
(* save_tasks), the Task record, the TaskManager store and the menu loop   *)
(* of main that drives the store and saves after each choice.              *)
(*                                                                         *)
(* Representation of values                                                *)
(*   - A JSON value of the "number" key is a record [t, v]: t = "int" for  *)
(*     a JSON integer v, t = "null" for null or an absent key (both give   *)
(*     Task.number = None), t = "str" for any other non-integer value.     *)
(*     In memory, after the repair loop of TaskManager.__init__, a         *)
(*     number is a plain integer.                                          *)
(*   - "created" is a string; "" stands for every falsy value (absent      *)
(*     key, null, empty string), which Task.__init__ replaces by the       *)
(*     current time.                                                       *)
(*   - NoKey in the "status" field of a document stands for an absent      *)
(*     key, for which Task.__init__ uses its default.                      *)
(***************************************************************************)
EXTENDS Integers, Sequences, FiniteSets, TLC

\* ---------------------------------------------------------------- bounds
MaxTasks == 2          \* longest in-memory collection the adds build
MaxNumber == 2         \* cap on the counter for add
MaxInitLen == 2        \* longest document present before the first run
MaxInitNumber == 2     \* largest integer number in such a document

Titles == {"A", "B"}
Descriptions == {"d"}
NewDescriptions == {"e"}
Times == {"t1", "t2"}
NoKey == "<absent>"

\* ------------------------------------------------------------- variables
VARIABLES
    file,          \* DATA_FILE: [kind, doc]
    tasks,         \* TaskManager.tasks
    next_number,   \* TaskManager.next_number (the counter)
    pc,            \* position of the process in main
    call,          \* the store operation main has just called, with its inputs
    ret,           \* value that operation returned
    printed,       \* message that operation printed on the console
    added,         \* history: the numbers the adds of this process gave, in order;
                   \* the history variables are forgotten when the loop is left
    maxSeen,       \* history: largest number loaded or assigned in this process
    rets,          \* history: the lookup that last found its record, and its result
    before,        \* history: the collection the previous process ended with,
                   \* kept until the first step after initialize
    origin         \* history: whether DATA_FILE existed when this process started

vars == <<file, tasks, next_number, pc, call, ret, printed,
          added, maxSeen, rets, before, origin>>

\* --------------------------------------------------------------- helpers
Max(a, b) == IF a >= b THEN a ELSE b

SetMax(S) == IF S = {} THEN 0 ELSE CHOOSE m \in S : \A n \in S : n <= m

Numbers(ts) == {ts[i].number : i \in 1..Len(ts)}

\* a scan that stops at the last record with the title instead of the first
FirstMatch_last(ts, title) ==
    IF \E i \in 1..Len(ts) : ts[i].title = title
    THEN CHOOSE i \in 1..Len(ts) :
            /\ ts[i].title = title
            /\ \A j \in (i + 1)..Len(ts) : ts[j].title # title
    ELSE 0

\* index of the first record whose title is title, 0 when there is none:
\* the `for task in self.tasks: if task.title == title` scan
FirstMatch(ts, title) ==
    IF \E i \in 1..Len(ts) : ts[i].title = title
    THEN CHOOSE i \in 1..Len(ts) :
            /\ ts[i].title = title
            /\ \A j \in 1..(i - 1) : ts[j].title # title
    ELSE 0

RemoveAt(ts, i) == [j \in 1..(Len(ts) - 1) |-> IF j < i THEN ts[j] ELSE ts[j + 1]]

\* ------------------------------------------------- persistence adapter
Absent == [kind |-> "absent", doc |-> <<>>]
Unparseable == [kind |-> "unparseable", doc |-> <<>>]
\* parseable JSON whose iteration does not give mappings with the keys of
\* Task.__init__: null, a number, [1], [{"title": "A"}], {"a": 1}, ...
NotTasks == [kind |-> "nottasks", doc |-> <<>>]

Document(d) == [kind |-> "doc", doc |-> d]

\* the dict of one Task as json.dumps writes it
TaskDict(t) ==
    [title |-> t.title, description |-> t.description, status |-> t.status,
     created |-> t.created, number |-> [t |-> "int", v |-> t.number]]

\* [task.__dict__ for task in self.tasks]
Dicts(ts) == [i \in 1..Len(ts) |-> TaskDict(ts[i])]

\* save_tasks(tasks): the whole file is replaced by the serialised list
save_tasks(dicts) == Document(dicts)

\* load_tasks that returns [] for a missing file without creating it
load_tasks_no_create(f) ==
    IF f.kind = "absent"
    THEN [value |-> <<>>, file |-> f, tasklist |-> TRUE]
    ELSE IF f.kind = "unparseable"
    THEN [value |-> <<>>, file |-> f, tasklist |-> TRUE]
    ELSE IF f.kind = "nottasks"
    THEN [value |-> <<>>, file |-> f, tasklist |-> FALSE]
    ELSE [value |-> f.doc, file |-> f, tasklist |-> TRUE]

\* load_tasks whose try block fails on every file: always the empty list
load_tasks_always_empty(f) ==
    IF f.kind = "absent"
    THEN [value |-> <<>>, file |-> Document(<<>>), tasklist |-> TRUE]
    ELSE [value |-> <<>>, file |-> f, tasklist |-> TRUE]

\* load_tasks(): the list returned, the file left behind, and whether the
\* value returned is a list of task documents
load_tasks(f) ==
    IF f.kind = "absent"
    THEN [value |-> <<>>, file |-> Document(<<>>), tasklist |-> TRUE]
    ELSE IF f.kind = "unparseable"
    THEN [value |-> <<>>, file |-> f, tasklist |-> TRUE]
    ELSE IF f.kind = "nottasks"
    THEN [value |-> <<>>, file |-> f, tasklist |-> FALSE]
    ELSE [value |-> f.doc, file |-> f, tasklist |-> TRUE]

\* ------------------------------------------------------------------ Task
\* Task(**d) that takes the current time whatever the document holds
Task_created_now(d, now) ==
    [title |-> d.title, description |-> d.description,
     status |-> IF d.status = NoKey THEN "Incomplete" ELSE d.status,
     created |-> now,
     number |-> d.number]

\* Task(**d) at time now; number is still the JSON value
Task(d, now) ==
    [title |-> d.title, description |-> d.description,
     status |-> IF d.status = NoKey THEN "Incomplete" ELSE d.status,
     created |-> IF d.created = "" THEN now ELSE d.created,
     number |-> d.number]

\* Task(title, description, status='Incomplete', number=n) at time now
NewTask(title, description, n, now) ==
    [title |-> title, description |-> description, status |-> "Incomplete",
     created |-> now, number |-> n]

\* mark_complete that also stamps the record with a time
mark_complete_restamps(t) == [t EXCEPT !.status = "Complete", !.created = "t2"]

\* mark_complete that flips the status
mark_complete_toggle(t) ==
    [t EXCEPT !.status = IF t.status = "Complete" THEN "Incomplete" ELSE "Complete"]

\* Task.mark_complete
mark_complete(t) == [t EXCEPT !.status = "Complete"]

\* ----------------------------------------------------------- TaskManager
\* the loop "Fix missing numbers" of __init__, from record i on, with the
\* local next_number nn; the result has plain integer numbers
RECURSIVE FixNumbers(_, _, _)
FixNumbers(ts, i, nn) ==
    IF i > Len(ts)
    THEN [tasks |-> ts, next_number |-> nn]
    ELSE LET n == IF ts[i].number.t # "int" THEN nn ELSE ts[i].number.v
         IN  FixNumbers([ts EXCEPT ![i].number = n], i + 1, Max(nn, n + 1))

\* TaskManager.__init__ that keeps the local next_number as the counter
TaskManagerInit_no_decrement(loaded, nows) ==
    LET built == [i \in 1..Len(loaded) |-> Task(loaded[i], nows[i])]
        fixed == FixNumbers(built, 1, 1)
    IN  [tasks |-> fixed.tasks, next_number |-> fixed.next_number]

\* TaskManager.__init__ on the list load_tasks returned, nows[i] being the
\* time at which record i is constructed
TaskManagerInit(loaded, nows) ==
    LET built == [i \in 1..Len(loaded) |-> Task(loaded[i], nows[i])]
        fixed == FixNumbers(built, 1, 1)
    IN  [tasks |-> fixed.tasks, next_number |-> fixed.next_number - 1]

\* add_task that numbers the record and leaves the counter as it was
add_task_stale_counter(ts, counter, title, description, now) ==
    [next_number |-> counter,
     tasks |-> Append(ts, NewTask(title, description, counter + 1, now))]

\* add_task: the counter and the collection after it
add_task(ts, counter, title, description, now) ==
    [next_number |-> counter + 1,
     tasks |-> Append(ts, NewTask(title, description, counter + 1, now))]

\* mark_task_complete that prints the success message on both paths
mark_task_complete_same_message(ts, title) ==
    LET i == FirstMatch(ts, title)
    IN  IF i # 0
        THEN [tasks |-> [ts EXCEPT ![i] = mark_complete(ts[i])],
              ret |-> "None", printed |-> "marked as complete"]
        ELSE [tasks |-> ts, ret |-> "None", printed |-> "marked as complete"]

\* mark_task_complete without the return inside the loop: every record
\* with the title is marked
mark_task_complete_all(ts, title) ==
    IF FirstMatch(ts, title) # 0
    THEN [tasks |-> [i \in 1..Len(ts) |->
                        IF ts[i].title = title THEN mark_complete(ts[i]) ELSE ts[i]],
          ret |-> "None", printed |-> "marked as complete"]
    ELSE [tasks |-> ts, ret |-> "None", printed |-> "No task found"]

\* mark_task_complete: collection, return value and message
mark_task_complete(ts, title) ==
    LET i == FirstMatch(ts, title)
    IN  IF i # 0
        THEN [tasks |-> [ts EXCEPT ![i] = mark_complete(ts[i])],
              ret |-> "None", printed |-> "marked as complete"]
        ELSE [tasks |-> ts, ret |-> "None", printed |-> "No task found"]

\* delete_task that removes the first record when no title matches
delete_task_removes_head(ts, title) ==
    LET i == FirstMatch(ts, title)
    IN  IF i # 0
        THEN [tasks |-> RemoveAt(ts, i),
              ret |-> "None", printed |-> "deleted successfully"]
        ELSE [tasks |-> IF ts = <<>> THEN ts ELSE RemoveAt(ts, 1),
              ret |-> "None", printed |-> "No task found"]

\* delete_task
delete_task(ts, title) ==
    LET i == FirstMatch(ts, title)
    IN  IF i # 0
        THEN [tasks |-> RemoveAt(ts, i),
              ret |-> "None", printed |-> "deleted successfully"]
        ELSE [tasks |-> ts, ret |-> "None", printed |-> "No task found"]

\* clear_task
clear_task(ts) == [tasks |-> <<>>, ret |-> "None", printed |-> "cleared"]

\* update_task without the `if new_title:` test: a blank answer erases the title
update_task_always_replaces(ts, title, new_title, new_description) ==
    LET i == FirstMatch(ts, title)
        t1 == [ts[i] EXCEPT !.title = new_title]
        t2 == IF new_description # ""
              THEN [t1 EXCEPT !.description = new_description] ELSE t1
    IN  IF i # 0
        THEN [tasks |-> [ts EXCEPT ![i] = t2],
              ret |-> "None", printed |-> "updated successfully"]
        ELSE [tasks |-> ts, ret |-> "None", printed |-> "No task found"]

\* update_task; new_title and new_description are what the two input()
\* calls return, read only when a record matches
update_task(ts, title, new_title, new_description) ==
    LET i == FirstMatch(ts, title)
        t1 == IF new_title # "" THEN [ts[i] EXCEPT !.title = new_title] ELSE ts[i]
        t2 == IF new_description # ""
              THEN [t1 EXCEPT !.description = new_description] ELSE t1
    IN  IF i # 0
        THEN [tasks |-> [ts EXCEPT ![i] = t2],
              ret |-> "None", printed |-> "updated successfully"]
        ELSE [tasks |-> ts, ret |-> "None", printed |-> "No task found"]

\* ------------------------------------------------------------------ Init
NumberValues ==
    {[t |-> "null", v |-> 0], [t |-> "str", v |-> 0]}
        \cup {[t |-> "int", v |-> n] : n \in 1..MaxInitNumber}

InitDicts ==
    [title : Titles, description : Descriptions,
     status : {NoKey, "Complete"}, created : {"", "t1"},
     number : NumberValues]

\* Documents present before the first run follow the file format except
\* that a number may be null, absent or not an integer, status may be
\* absent and created may be empty: their integer numbers are positive and
\* pairwise different.  Later runs load whatever the program itself wrote.
DistinctInts(d) ==
    \A i, j \in 1..Len(d) :
        (i # j /\ d[i].number.t = "int" /\ d[j].number.t = "int")
            => d[i].number.v # d[j].number.v

InitDocs ==
    {d \in UNION {[1..n -> InitDicts] : n \in 0..MaxInitLen} : DistinctInts(d)}

InitFiles == {Absent, Unparseable, NotTasks} \cup {Document(d) : d \in InitDocs}

NoCall ==
    [op |-> "none", title |-> "", found |-> FALSE,
     new_title |-> "", new_description |-> ""]
NoRets == [op |-> "none", value |-> "unset"]
NoBefore == [valid |-> FALSE, tasks |-> <<>>]

Init ==
    /\ file \in InitFiles
    /\ tasks = <<>>
    /\ next_number = 0
    /\ pc = "start"
    /\ call = NoCall
    /\ ret = "None"
    /\ printed = ""
    /\ added = <<>>
    /\ maxSeen = 0
    /\ rets = NoRets
    /\ before = NoBefore
    /\ origin = "none"

\* --------------------------------------------------------------- actions
\* main line 264, TaskManager(): load, build, repair, save, set the counter;
\* a value that is not a list of task documents raises TypeError in
\* `Task(**task) for task in loaded_tasks`, which main does not catch
Initialize ==
    /\ pc = "start"
    /\ LET l == load_tasks(file)
       IN  IF l.tasklist
           THEN \E nows \in [1..Len(l.value) -> Times] :
                    LET m == TaskManagerInit(l.value, nows)
                    IN  /\ tasks' = m.tasks
                        /\ next_number' = m.next_number
                        /\ file' = save_tasks(Dicts(m.tasks))
                        /\ maxSeen' = SetMax(Numbers(m.tasks))
                        /\ pc' = "menu"
           ELSE /\ pc' = "crashed"
                /\ file' = l.file
                /\ UNCHANGED <<tasks, next_number, maxSeen>>
    /\ origin' = (IF file.kind = "absent" THEN "absent" ELSE "present")
    /\ UNCHANGED <<call, ret, printed, added, rets, before>>

\* the value r that operation op returned is noted when it found its record
NoteRet(op, found, r) == IF found THEN [op |-> op, value |-> r] ELSE rets

\* choice '1': add_task, which saves by itself (line 127)
Add ==
    /\ pc = "menu"
    /\ Len(tasks) < MaxTasks
    /\ next_number < MaxNumber
    /\ \E title \in Titles, description \in Descriptions, now \in Times :
          LET a == add_task(tasks, next_number, title, description, now)
          IN  /\ tasks' = a.tasks
              /\ next_number' = a.next_number
              /\ file' = save_tasks(Dicts(a.tasks))
              /\ added' = Append(added, a.tasks[Len(a.tasks)].number)
              /\ maxSeen' = Max(maxSeen, a.tasks[Len(a.tasks)].number)
              /\ call' = [NoCall EXCEPT !.op = "add", !.title = title]
    /\ ret' = "None"
    /\ printed' = "added successfully"
    /\ pc' = "returned"
    /\ before' = NoBefore
    /\ UNCHANGED <<rets, origin>>

\* choice '3': mark_task_complete
MarkComplete ==
    /\ pc = "menu"
    /\ \E title \in Titles :
          LET r == mark_task_complete(tasks, title)
              f == FirstMatch(tasks, title) # 0
          IN  /\ tasks' = r.tasks
              /\ ret' = r.ret
              /\ printed' = r.printed
              /\ call' = [NoCall EXCEPT !.op = "markComplete", !.title = title,
                                        !.found = f]
              /\ rets' = NoteRet("markComplete", f, r.ret)
    /\ pc' = "returned"
    /\ before' = NoBefore
    /\ UNCHANGED <<file, next_number, added, maxSeen, origin>>

\* choice '4': update_task
Update ==
    /\ pc = "menu"
    /\ \E title \in Titles, new_title \in Titles \cup {""},
          new_description \in NewDescriptions \cup {""} :
          LET r == update_task(tasks, title, new_title, new_description)
              f == FirstMatch(tasks, title) # 0
          IN  /\ tasks' = r.tasks
              /\ ret' = r.ret
              /\ printed' = r.printed
              /\ call' = [op |-> "update", title |-> title, found |-> f,
                          new_title |-> IF f THEN new_title ELSE "",
                          new_description |-> IF f THEN new_description ELSE ""]
              /\ rets' = NoteRet("update", f, r.ret)
    /\ pc' = "returned"
    /\ before' = NoBefore
    /\ UNCHANGED <<file, next_number, added, maxSeen, origin>>

\* choice '5': delete_task
Delete ==
    /\ pc = "menu"
    /\ \E title \in Titles :
          LET r == delete_task(tasks, title)
              f == FirstMatch(tasks, title) # 0
          IN  /\ tasks' = r.tasks
              /\ ret' = r.ret
              /\ printed' = r.printed
              /\ call' = [NoCall EXCEPT !.op = "delete", !.title = title, !.found = f]
              /\ rets' = NoteRet("delete", f, r.ret)
    /\ pc' = "returned"
    /\ before' = NoBefore
    /\ UNCHANGED <<file, next_number, added, maxSeen, origin>>

\* choice '6' with a clear_task that also resets the counter
Clear_resets_counter ==
    /\ pc = "menu"
    /\ LET r == clear_task(tasks)
       IN  /\ tasks' = r.tasks
           /\ ret' = r.ret
           /\ printed' = r.printed
    /\ next_number' = 0
    /\ call' = [NoCall EXCEPT !.op = "clear"]
    /\ pc' = "returned"
    /\ before' = NoBefore
    /\ UNCHANGED <<file, added, maxSeen, rets, origin>>

\* choice '6': clear_task
Clear ==
    /\ pc = "menu"
    /\ LET r == clear_task(tasks)
       IN  /\ tasks' = r.tasks
           /\ ret' = r.ret
           /\ printed' = r.printed
    /\ call' = [NoCall EXCEPT !.op = "clear"]
    /\ pc' = "returned"
    /\ before' = NoBefore
    /\ UNCHANGED <<file, next_number, added, maxSeen, rets, origin>>

\* the save_tasks that follows the store call in every branch of main
\* (lines 277, 283, 287, 291, 294), then back to the top of the loop
MainSave ==
    /\ pc = "returned"
    /\ file' = save_tasks(Dicts(tasks))
    /\ pc' = "menu"
    /\ call' = NoCall
    /\ ret' = "None"
    /\ printed' = ""
    /\ UNCHANGED <<tasks, next_number, added, maxSeen, rets, before, origin>>

\* choice '7': save and leave the loop
Exit ==
    /\ pc = "menu"
    /\ file' = save_tasks(Dicts(tasks))
    /\ pc' = "done"
    /\ before' = NoBefore
    /\ ret' = "None"
    /\ printed' = ""
    /\ added' = <<>>
    /\ maxSeen' = 0
    /\ rets' = NoRets
    /\ origin' = "none"
    /\ UNCHANGED <<tasks, next_number, call>>

\* ---------------------------------------------------- KeyboardInterrupt
\* Ctrl+C at a prompt of the loop or between a store call and the save
\* that follows it
Interrupt ==
    /\ pc \in {"menu", "returned"}
    /\ pc' = "except"
    /\ before' = NoBefore
    /\ ret' = "None"
    /\ printed' = ""
    /\ added' = <<>>
    /\ maxSeen' = 0
    /\ rets' = NoRets
    /\ origin' = "none"
    /\ UNCHANGED <<file, tasks, next_number, call>>

\* Ctrl+C inside add_task: after line 124, or after line 126
InterruptInAdd ==
    /\ pc = "menu"
    /\ Len(tasks) < MaxTasks
    /\ next_number < MaxNumber
    /\ \E title \in Titles, description \in Descriptions, now \in Times,
          appended \in BOOLEAN :
          LET a == add_task(tasks, next_number, title, description, now)
          IN  /\ next_number' = a.next_number
              /\ tasks' = IF appended THEN a.tasks ELSE tasks
              /\ added' = IF appended THEN Append(added, a.next_number) ELSE added
              /\ maxSeen' = IF appended THEN Max(maxSeen, a.next_number) ELSE maxSeen
    /\ pc' = "except"
    /\ before' = NoBefore
    /\ UNCHANGED <<file, call, ret, printed, rets, origin>>

\* Ctrl+C inside update_task between lines 202 and 203: the title is
\* replaced, the description is not
InterruptInUpdate ==
    /\ pc = "menu"
    /\ \E title \in Titles, new_title \in Titles :
          /\ FirstMatch(tasks, title) # 0
          /\ tasks' = update_task(tasks, title, new_title, "").tasks
    /\ pc' = "except"
    /\ before' = NoBefore
    /\ UNCHANGED <<file, next_number, call, ret, printed,
                   added, maxSeen, rets, origin>>

\* Ctrl+C inside a save_tasks of the loop: write_text has opened the file
\* for writing, which truncates it, and has not written the text yet
InterruptInSave ==
    /\ pc \in {"menu", "returned"}
    /\ file' = Unparseable
    /\ pc' = "except"
    /\ before' = NoBefore
    /\ ret' = "None"
    /\ printed' = ""
    /\ added' = <<>>
    /\ maxSeen' = 0
    /\ rets' = NoRets
    /\ origin' = "none"
    /\ UNCHANGED <<tasks, next_number, call>>

\* an except clause that ends the process without saving
Handler_no_save ==
    /\ pc = "except"
    /\ pc' = "done"
    /\ ret' = "None"
    /\ printed' = ""
    /\ added' = <<>>
    /\ maxSeen' = 0
    /\ rets' = NoRets
    /\ origin' = "none"
    /\ UNCHANGED <<file, tasks, next_number, call, before>>

\* except KeyboardInterrupt (lines 305-307): save, then the process ends
Handler ==
    /\ pc = "except"
    /\ file' = save_tasks(Dicts(tasks))
    /\ pc' = "done"
    /\ ret' = "None"
    /\ printed' = ""
    /\ added' = <<>>
    /\ maxSeen' = 0
    /\ rets' = NoRets
    /\ origin' = "none"
    /\ UNCHANGED <<tasks, next_number, call, before>>

\* the program is run again: a new process, with nothing in memory
Restart ==
    /\ pc \in {"done", "crashed"}
    /\ pc' = "start"
    /\ before' = [valid |-> pc = "done", tasks |-> tasks]
    /\ tasks' = <<>>
    /\ next_number' = 0
    /\ call' = NoCall
    /\ ret' = "None"
    /\ printed' = ""
    /\ added' = <<>>
    /\ maxSeen' = 0
    /\ rets' = NoRets
    /\ origin' = "none"
    /\ UNCHANGED file

Next ==
    \/ Initialize
    \/ Add
    \/ MarkComplete
    \/ Update
    \/ Delete
    \/ Clear
    \/ MainSave
    \/ Exit
    \/ Interrupt
    \/ InterruptInAdd
    \/ InterruptInUpdate
    \/ InterruptInSave
    \/ Handler
    \/ Restart

Spec == Init /\ [][Next]_vars

\* ---------------------------------------------------------------- claims
Persisted == save_tasks(Dicts(tasks))

Lookups == {"markComplete", "update", "delete"}

\* a step of Initialize that completes
InitStep == pc = "start" /\ pc' = "menu"

\* a step in which add_task appends its record
AddStep == pc = "menu" /\ Len(tasks') = Len(tasks) + 1

\* a step in which a lookup operation is called with a title no record has
NotFoundStep ==
    /\ pc = "menu"
    /\ call'.op \in Lookups
    /\ \A i \in 1..Len(tasks) : tasks[i].title # call'.title

\* C1: whenever initialize or a mutating store operation has returned to its
\* caller (the process is at the menu, or between the store call and the
\* save of main), the persisted document equals the in-memory collection.
C1_PersistedOnReturn ==
    pc \in {"menu", "returned"} => file = Persisted

\* C2: in every state reached by initialize and any sequence of operations,
\* every record has a positive integer number and no two records share one.
C2_NumbersPositiveUnique ==
    pc \in {"menu", "returned"} =>
        /\ \A i \in 1..Len(tasks) : tasks[i].number \in Nat \ {0}
        /\ \A i, j \in 1..Len(tasks) : i # j => tasks[i].number # tasks[j].number

\* the repair C3 describes: a record with an integer number keeps it; the
\* others get, in file order, the values following the largest integer
\* number of the document
DocMax(d) == SetMax({d[i].number.v : i \in {k \in 1..Len(d) : d[k].number.t = "int"}})

Unnumbered(d, i) == Cardinality({k \in 1..i : d[k].number.t # "int"})

ClaimedNumber(d, i) ==
    IF d[i].number.t = "int" THEN d[i].number.v ELSE DocMax(d) + Unnumbered(d, i)

\* C3: initialize gives each record without an integer number, in file
\* order, the next value after the largest number present in the document,
\* keeps every integer number, and persists the repaired document.
C3_RepairContinuesFromMaximum ==
    [][(pc = "start" /\ file.kind = "doc") =>
           /\ pc' = "menu"
           /\ Len(tasks') = Len(file.doc)
           /\ \A i \in 1..Len(file.doc) : tasks'[i].number = ClaimedNumber(file.doc, i)
           /\ file' = save_tasks(Dicts(tasks'))]_vars

\* C4: the numbers given by the adds of one process are strictly increasing
\* in the order of the adds, whatever operations come between them.
C4_AddNumbersIncrease ==
    \A i, j \in 1..Len(added) : i < j => added[i] < added[j]

C4_Witness ==
    /\ Len(added) >= 2
    /\ pc = "returned"
    /\ call.op = "add"
    /\ Len(tasks) = 1

\* C5: after initialize the counter is the highest number in the collection
\* (0 if empty); at every later operation boundary it is the largest number
\* loaded or assigned so far; every add numbers its record counter + 1.
C5_CounterIsMaximum ==
    /\ [](pc \in {"menu", "returned"} => next_number = maxSeen)
    /\ [][InitStep => next_number' = SetMax(Numbers(tasks'))]_vars
    /\ [][AddStep => tasks'[Len(tasks')].number = next_number + 1]_vars

C5_Witness ==
    /\ pc = "returned"
    /\ call.op = "add"
    /\ Len(added) = 1
    /\ next_number > SetMax(Numbers(SubSeq(tasks, 1, Len(tasks) - 1))) + 1

\* C6: when the session has ended, by the exit choice or by a keyboard
\* interrupt at any step of the loop, the persisted document equals the
\* in-memory collection.
C6_PersistedAtExit ==
    pc = "done" => file = Persisted

\* ended by an interrupt between a store mutation and the save after it
C6_Witness ==
    /\ pc = "done"
    /\ call.op = "markComplete"
    /\ call.found
    /\ \E i \in 1..Len(tasks) : tasks[i].status = "Complete" /\ tasks[i].title = call.title

\* C7: a new initialize on the document a process left at its exit rebuilds
\* the collection that process had: same records, fields and order.
C7_RestartRoundTrip ==
    [][(pc = "start" /\ before.valid) => (pc' = "menu" /\ tasks' = before.tasks)]_vars

C7_Witness ==
    /\ before.valid
    /\ tasks = before.tasks
    /\ pc = "menu"
    /\ call = NoCall
    /\ added = <<>>
    /\ Len(tasks) = 2
    /\ tasks[1].status = "Complete"
    /\ tasks[2].status = "Incomplete"
    /\ tasks[1].created # tasks[2].created

\* C8: initialize on a file that exists but is malformed, unparseable or
\* parseable but not an array of task objects, completes without raising
\* and yields an empty collection.
C8_MalformedGivesEmpty ==
    [][(pc = "start" /\ file.kind \in {"unparseable", "nottasks"}) =>
           (pc' = "menu" /\ tasks' = <<>>)]_vars

\* C9: delete, markComplete and update with a title no record has leave
\* the collection and the counter unchanged and return normally.
C9_NotFoundChangesNothing ==
    [][NotFoundStep =>
           /\ tasks' = tasks
           /\ next_number' = next_number
           /\ pc' = "returned"]_vars

C9_Witness ==
    /\ pc = "returned"
    /\ call.op = "delete"
    /\ ~call.found
    /\ Len(tasks) = 2
    /\ \A i \in 1..Len(tasks) : tasks[i].title # call.title

Matching(ts, title) == {i \in 1..Len(ts) : ts[i].title = title}

\* the smallest member of a non-empty set of positions
Lowest(S) == CHOOSE i \in S : \A j \in S : i <= j

\* C11: markComplete on a collection with a record of that title sets the
\* status of the first such record to Complete and changes nothing else:
\* not its other fields, not the other records, the order, the length or
\* the counter.
C11_MarkCompleteFrame ==
    [][(pc = "menu" /\ call'.op = "markComplete"
            /\ Matching(tasks, call'.title) # {}) =>
           LET k == Lowest(Matching(tasks, call'.title))
           IN  /\ pc' = "returned"
               /\ tasks' = [tasks EXCEPT ![k].status = "Complete"]
               /\ next_number' = next_number]_vars

\* add("A","d") then markComplete("A") on a store that started empty
C11_Witness ==
    /\ pc = "returned"
    /\ call.op = "markComplete"
    /\ call.title = "A"
    /\ origin = "absent"
    /\ added = <<1>>
    /\ Len(tasks) = 1
    /\ tasks[1].title = "A"
    /\ tasks[1].description = "d"
    /\ tasks[1].status = "Complete"
    /\ tasks[1].number = 1

C13_FirstMatchOnly ==
    [][(pc = "menu" /\ call'.op \in Lookups
            /\ Cardinality(Matching(tasks, call'.title)) >= 2) =>
           LET k == Lowest(Matching(tasks, call'.title))
           IN  IF call'.op = "delete"
               THEN /\ Len(tasks') = Len(tasks) - 1
                    /\ \A j \in 1..Len(tasks') :
                          tasks'[j] = tasks[IF j < k THEN j ELSE j + 1]
               ELSE /\ Len(tasks') = Len(tasks)
                    /\ \A j \in 1..Len(tasks) : j # k => tasks'[j] = tasks[j]
                    /\ call'.op = "markComplete" => tasks'[k].status = "Complete"
                    /\ (call'.op = "update" /\ call'.new_title # "")
                           => tasks'[k].title = call'.new_title]_vars

\* two records had the title, the first was deleted, the second is left
C13_Witness ==
    /\ pc = "returned"
    /\ call.op = "delete"
    /\ call.found
    /\ Len(tasks) = 1
    /\ tasks[1].title = call.title
    /\ tasks[1].number = 2

Min(a, b) == IF a <= b THEN a ELSE b

\* the records that are in the collection before and after a step, as pairs
\* <<record before, record after>>: across a restart the collection the
\* previous process left and the one initialize rebuilds; across a delete
\* the records around the removed one; otherwise the records by position
Stays ==
    IF pc = "start"
    THEN IF before.valid /\ pc' = "menu"
         THEN {<<before.tasks[i], tasks'[i]>> :
                  i \in 1..Min(Len(before.tasks), Len(tasks'))}
         ELSE {}
    ELSE IF pc' = "start" \/ (pc = "menu" /\ call'.op = "clear")
    THEN {}
    ELSE IF pc = "menu" /\ call'.op = "delete" /\ Matching(tasks, call'.title) # {}
    THEN LET k == Lowest(Matching(tasks, call'.title))
         IN  {<<tasks[IF j < k THEN j ELSE j + 1], tasks'[j]>> :
                  j \in 1..Min(Len(tasks) - 1, Len(tasks'))}
    ELSE {<<tasks[i], tasks'[i]>> : i \in 1..Min(Len(tasks), Len(tasks'))}

\* C14: the created timestamp and the number of a record never change for
\* as long as the record stays in the collection, whatever operation is
\* done, and across a restart.
C14_CreatedAndNumberStable ==
    [][\A p \in Stays : p[2].created = p[1].created /\ p[2].number = p[1].number]_vars

\* update has replaced the title of a record that stands next to another
\* one made at a different time
C14_Witness ==
    /\ origin = "present"
    /\ pc = "returned"
    /\ call.op = "update"
    /\ call.found
    /\ call.new_title # ""
    /\ Len(tasks) = 2
    /\ tasks[1].number = 1
    /\ tasks[2].number = 2
    /\ tasks[1].created = "t1"
    /\ tasks[2].created = "t2"
    /\ tasks[1].status = "Complete"

C16_AbsentFile ==
    /\ [][(pc = "start" /\ file.kind = "absent") =>
              /\ load_tasks(file).value = <<>>
              /\ load_tasks(file).file = Document(<<>>)
              /\ pc' = "menu"
              /\ tasks' = <<>>
              /\ next_number' = 0
              /\ file' = Document(<<>>)]_vars
    /\ [][(AddStep /\ origin = "absent" /\ added = <<>>) =>
              tasks'[Len(tasks')].number = 1]_vars

C16_Witness ==
    /\ origin = "absent"
    /\ pc = "returned"
    /\ call.op = "add"
    /\ added = <<1>>
    /\ tasks[Len(tasks)].number = 1
    /\ file = Persisted

\* C17: after clear the listed collection is empty, and once clear has
\* returned the persisted document is an empty array.
C17_ClearEmptiesBoth ==
    (pc = "returned" /\ call.op = "clear") =>
        (tasks = <<>> /\ file = Document(<<>>))

\* C18: within one process the counter never decreases, delete and clear
\* included, and an add never gives a number that any record held before
\* in that process.
C18_CounterNeverDecreases ==
    /\ [][pc' # "start" => next_number' >= next_number]_vars
    /\ [][AddStep => tasks'[Len(tasks')].number > maxSeen]_vars

\* every number up to the counter was given by an add of this process and
\* only the record of the latest add is left
C18_Witness ==
    /\ pc = "returned"
    /\ call.op = "add"
    /\ Len(tasks) = 1
    /\ maxSeen >= 2
    /\ Len(added) = maxSeen
    /\ tasks[1].number = maxSeen

\* C19: a record that is Complete stays Complete for as long as it is in
\* the collection, across every operation and a restart; markComplete on
\* a record that is already Complete changes nothing.
C19_StatusMonotone ==
    /\ [][\A p \in Stays : p[1].status = "Complete" => p[2].status = "Complete"]_vars
    /\ [][(pc = "menu" /\ call'.op = "markComplete"
               /\ Matching(tasks, call'.title) # {}
               /\ tasks[Lowest(Matching(tasks, call'.title))].status = "Complete") =>
              /\ tasks' = tasks
              /\ next_number' = next_number
              /\ file' = file]_vars

\* markComplete has returned and the document written before the call
\* already held the record as Complete
C19_Witness ==
    /\ pc = "returned"
    /\ call.op = "markComplete"
    /\ call.found
    /\ file = Persisted
    /\ Len(tasks) = 2
    /\ tasks[2].title = call.title
    /\ tasks[1].title # call.title
    /\ tasks[2].status = "Complete"
    /\ tasks[1].status = "Incomplete"

====
